---- MODULE Spec2Model ----
(***************************************************************************)
(* amenhotep: the Cairo declaration scanner (src/src/parser.rs), the        *)
(* indexer generator (src/src/generator.rs) and the driver                  *)
(* handle_generate_indexer (src/src/main.rs).                               *)
(*                                                                          *)
(* Text is modelled character by character: a Rust String / &str is a       *)
(* sequence of one-character strings, so that contains, split, trim and the *)
(* signature regex are computed as the code computes them.                  *)
(***************************************************************************)
EXTENDS Integers, Sequences, FiniteSets, TLC

(***************************************************************************)
(* Bounds of the model.                                                     *)
(***************************************************************************)
\* longest file (in lines) handed to parse_cairo_file
MaxLines == 4
\* longest list of input paths handed to handle_generate_indexer
MaxPaths == 2
\* longest list of storage field lines handed to CairoStorage::from alone
MaxFields == 2

(***************************************************************************)
(* String literals of the source.                                          *)
(***************************************************************************)
LitStructStorage == <<"s","t","r","u","c","t"," ","S","t","o","r","a","g","e">>
LitEventMarker == <<"#","[","e","v","e","n","t","]">>
LitLegacyMap == <<"L","e","g","a","c","y","M","a","p">>
LitFelt252 == <<"f","e","l","t","2","5","2">>
LitContractAddress == <<"C","o","n","t","r","a","c","t","A","d","d","r","e","s","s">>
LitU8 == <<"u","8">>
LitU16 == <<"u","1","6">>
LitU32 == <<"u","3","2">>
LitU64 == <<"u","6","4">>
LitU128 == <<"u","1","2","8">>
LitU256 == <<"u","2","5","6">>
LitFn == <<"f","n"," ">>
LitCommaSpace == <<","," ">>
LitColonSpace == <<":"," ">>
LitColon == <<":">>
LitSlash == <<"/">>
LitDotCairo == <<".","c","a","i","r","o">>
LitCairo == <<"c","a","i","r","o">>
LitNew == <<"n","e","w","_">>
LitHandle == <<"h","a","n","d","l","e">>
LitDot == <<".">>
LitGql == <<".","g","q","l">>
LitDataWriterJs == <<"D","a","t","a","W","r","i","t","e","r",".","j","s">>
LitConfigurationJson == <<"c","o","n","f","i","g","u","r","a","t","i","o","n",".","j","s","o","n">>

LowerLetters ==
    <<"a","b","c","d","e","f","g","h","i","j","k","l","m",
      "n","o","p","q","r","s","t","u","v","w","x","y","z">>
UpperLetters ==
    <<"A","B","C","D","E","F","G","H","I","J","K","L","M",
      "N","O","P","Q","R","S","T","U","V","W","X","Y","Z">>
\* the regex class [a-zA-Z]
IsLetter(c) == \E i \in 1..26 : c = LowerLetters[i] \/ c = UpperLetters[i]
\* char::is_whitespace, on the characters a source line holds
IsWhitespace(c) == c \in {" ", "\t", "\r"}

(***************************************************************************)
(* The str methods the parser uses.                                        *)
(***************************************************************************)
\* s[i..] as a sequence (empty when i is past the end)
Tail_(s, i) == SubSeq(s, i, Len(s))

\* str::starts_with
StartsWith(s, p) == Len(p) <= Len(s) /\ SubSeq(s, 1, Len(p)) = p

\* whether pattern p occurs in s at index i
OccursAt(s, p, i) == i + Len(p) - 1 <= Len(s) /\ SubSeq(s, i, i + Len(p) - 1) = p

\* str::contains
Contains(s, p) == \E i \in 1..Len(s) : OccursAt(s, p, i)

\* str::find: the index of the first occurrence of p in s, 0 when there is none
Find(s, p) ==
    IF Contains(s, p)
    THEN CHOOSE i \in 1..Len(s) :
            OccursAt(s, p, i) /\ \A j \in 1..(i - 1) : ~OccursAt(s, p, j)
    ELSE 0

\* str::split on a non-empty pattern: the pieces between the occurrences of p
RECURSIVE Split(_, _)
Split(s, p) ==
    LET i == Find(s, p) IN
    IF i = 0
    THEN <<s>>
    ELSE <<SubSeq(s, 1, i - 1)>> \o Split(Tail_(s, i + Len(p)), p)

\* Iterator::take
Take(seq, n) == SubSeq(seq, 1, IF Len(seq) < n THEN Len(seq) ELSE n)

\* str::trim_start_matches(char) and str::trim_end_matches(char)
RECURSIVE TrimStartMatches(_, _)
TrimStartMatches(s, c) ==
    IF Len(s) > 0 /\ s[1] = c THEN TrimStartMatches(Tail(s), c) ELSE s
RECURSIVE TrimEndMatches(_, _)
TrimEndMatches(s, c) ==
    IF Len(s) > 0 /\ s[Len(s)] = c
    THEN TrimEndMatches(SubSeq(s, 1, Len(s) - 1), c)
    ELSE s

\* str::trim
RECURSIVE TrimStart(_)
TrimStart(s) == IF Len(s) > 0 /\ IsWhitespace(s[1]) THEN TrimStart(Tail(s)) ELSE s
RECURSIVE TrimEnd(_)
TrimEnd(s) ==
    IF Len(s) > 0 /\ IsWhitespace(s[Len(s)])
    THEN TrimEnd(SubSeq(s, 1, Len(s) - 1))
    ELSE s
Trim(s) == TrimEnd(TrimStart(s))

\* Vec<&str>::join, with an empty separator: the concatenation of the pieces
RECURSIVE Concat(_)
Concat(pieces) ==
    IF pieces = <<>> THEN <<>> ELSE Head(pieces) \o Concat(Tail(pieces))

\* str::replace(p, "")
RemoveAll(s, p) == Concat(Split(s, p))

\* char::to_uppercase and str::to_lowercase, on ASCII
ToUpperChar(c) ==
    IF \E i \in 1..26 : LowerLetters[i] = c
    THEN UpperLetters[CHOOSE i \in 1..26 : LowerLetters[i] = c]
    ELSE c
ToLowerChar(c) ==
    IF \E i \in 1..26 : UpperLetters[i] = c
    THEN LowerLetters[CHOOSE i \in 1..26 : UpperLetters[i] = c]
    ELSE c
ToLowercase(s) == [i \in 1..Len(s) |-> ToLowerChar(s[i])]

(***************************************************************************)
(* parser.rs: CairoType and the Type Resolver (impl From<String>).          *)
(* A call that panics yields the value Panic(msg).                          *)
(***************************************************************************)
Panic(msg) == [kind |-> "Panic", msg |-> msg]
IsPanic(v) == v.kind = "Panic"

Prim(k) == [kind |-> k]
LegacyMapOf(k, v) == [kind |-> "LegacyMap", key |-> k, value |-> v]

\* impl From<String> for CairoType
RECURSIVE CairoTypeFrom(_)
CairoTypeFrom(raw) ==
    LET value == Trim(raw) IN
    IF value = LitFelt252 THEN Prim("Felt252")
    ELSE IF value = LitContractAddress THEN Prim("ContractAddress")
    ELSE IF value = LitU8 THEN Prim("U8")
    ELSE IF value = LitU16 THEN Prim("U16")
    ELSE IF value = LitU32 THEN Prim("U32")
    ELSE IF value = LitU64 THEN Prim("U64")
    ELSE IF value = LitU128 THEN Prim("U128")
    ELSE IF value = LitU256 THEN Prim("U256")
    ELSE IF StartsWith(value, LitLegacyMap)
    THEN LET pieces == Split(value, LitLegacyMap)
             \* value.next().unwrap(), twice: the first two pieces of the split
             key == TrimEndMatches(TrimStartMatches(Trim(pieces[1]), "<"), ">")
             val == TrimEndMatches(TrimStartMatches(Trim(pieces[2]), "<"), ">")
             k == CairoTypeFrom(key)
         IN  IF IsPanic(k) THEN k
             ELSE LET v == CairoTypeFrom(val) IN
                  IF IsPanic(v) THEN v ELSE LegacyMapOf(k, v)
    ELSE Panic("Unknown type")

(***************************************************************************)
(* parser.rs: CairoStorage (impl From<Vec<String>>).                        *)
(***************************************************************************)
\* the two closures of the map chain, on one line of the buffer
StorageFieldFrom(line) ==
    LET v == Take(Split(Trim(line), LitColon), 2) IN
    IF Len(v) < 2
    THEN Panic("index out of bounds")
    ELSE LET key == Trim(v[1])
             value == CairoTypeFrom(Trim(v[2]))
         IN  IF IsPanic(value)
             THEN value
             ELSE [kind |-> "Field", key |-> key, value |-> value]

\* fields_vec: the lines mapped in order; the first panic ends the conversion
RECURSIVE FieldsVec(_)
FieldsVec(value) ==
    IF value = <<>>
    THEN [kind |-> "Vec", items |-> <<>>]
    ELSE LET f == StorageFieldFrom(Head(value)) IN
         IF IsPanic(f)
         THEN f
         ELSE LET rest == FieldsVec(Tail(value)) IN
              IF IsPanic(rest)
              THEN rest
              ELSE [kind |-> "Vec", items |-> <<f>> \o rest.items]

\* impl From<Vec<String>> for CairoStorage: the struct it returns is built
\* with `fields: HashMap::new()`, the local map is dropped
CairoStorageFrom(value) ==
    LET fields_vec == FieldsVec(value) IN
    IF IsPanic(fields_vec)
    THEN fields_vec
    ELSE [kind |-> "CairoStorage", fields |-> {}]

(***************************************************************************)
(* parser.rs: PostgresType, CairoArgument, CairoEvent.                      *)
(***************************************************************************)
\* impl From<&str> for PostgresType
PostgresTypeFrom(value) ==
    CASE value = LitContractAddress -> Prim("String")
      [] value = LitU256 -> Prim("String")
      [] OTHER -> Prim("String")

\* impl From<&str> for CairoArgument
CairoArgumentFrom(value) ==
    LET v == Split(value, LitColonSpace) IN
    IF Len(v) < 2
    THEN Panic("index out of bounds")
    ELSE [kind |-> "CairoArgument", name |-> v[1], type |-> PostgresTypeFrom(v[2])]

\* the length of the run of letters of s that starts at index j
RECURSIVE LetterRun(_, _)
LetterRun(s, j) ==
    IF j <= Len(s) /\ IsLetter(s[j]) THEN 1 + LetterRun(s, j + 1) ELSE 0

\* whether (fn )(?<fn_name>[a-zA-Z]+)\((?<args>.*)\) matches s from index i:
\* "fn ", the whole run of letters, "(", and a ")" somewhere after it
MatchesAt(s, i) ==
    /\ OccursAt(s, LitFn, i)
    /\ LET n == LetterRun(s, i + 3) IN
       /\ n >= 1
       /\ i + 3 + n <= Len(s)
       /\ s[i + 3 + n] = "("
       /\ \E k \in (i + 4 + n)..Len(s) : s[k] = ")"

\* Regex::captures: the leftmost match, .* greedy (up to the last ")")
Captures(s) ==
    IF \E i \in 1..Len(s) : MatchesAt(s, i)
    THEN LET i == CHOOSE i \in 1..Len(s) :
                    MatchesAt(s, i) /\ \A j \in 1..(i - 1) : ~MatchesAt(s, j)
             n == LetterRun(s, i + 3)
             open == i + 3 + n
             close == CHOOSE k \in (open + 1)..Len(s) :
                        s[k] = ")" /\ \A m \in (k + 1)..Len(s) : s[m] # ")"
         IN  [kind |-> "Some",
              fn_name |-> SubSeq(s, i + 3, open - 1),
              args |-> SubSeq(s, open + 1, close - 1)]
    ELSE [kind |-> "None"]

\* the collection of the arguments with the empty tokens left out
RECURSIVE ArgumentsFromNonEmpty(_)
ArgumentsFromNonEmpty(tokens) ==
    IF tokens = <<>>
    THEN [kind |-> "Vec", items |-> <<>>]
    ELSE IF Head(tokens) = <<>>
         THEN ArgumentsFromNonEmpty(Tail(tokens))
         ELSE LET a == CairoArgumentFrom(Head(tokens)) IN
              IF IsPanic(a)
              THEN a
              ELSE LET rest == ArgumentsFromNonEmpty(Tail(tokens)) IN
                   IF IsPanic(rest)
                   THEN rest
                   ELSE [kind |-> "Vec", items |-> <<a>> \o rest.items]

\* .map(|s| s.into()).collect::<Vec<CairoArgument>>()
RECURSIVE ArgumentsFrom(_)
ArgumentsFrom(tokens) ==
    IF tokens = <<>>
    THEN [kind |-> "Vec", items |-> <<>>]
    ELSE LET a == CairoArgumentFrom(Head(tokens)) IN
         IF IsPanic(a)
         THEN a
         ELSE LET rest == ArgumentsFrom(Tail(tokens)) IN
              IF IsPanic(rest)
              THEN rest
              ELSE [kind |-> "Vec", items |-> <<a>> \o rest.items]

\* CairoEvent::from with the failed match answered by an event without name
\* or arguments instead of the unwrap
CairoEventFromLenient(value) ==
    LET captures == Captures(value) IN
    IF captures.kind = "None"
    THEN [kind |-> "CairoEvent", name |-> <<>>, arguments |-> <<>>,
          definition_at |-> 0, emitted_at |-> <<>>]
    ELSE LET args == ArgumentsFrom(Split(captures.args, LitCommaSpace)) IN
         IF IsPanic(args)
         THEN args
         ELSE [kind |-> "CairoEvent",
               name |-> captures.fn_name,
               arguments |-> args.items,
               definition_at |-> 0,
               emitted_at |-> <<>>]

\* impl From<String> for CairoEvent
CairoEventFrom(value) ==
    LET captures == Captures(value) IN
    IF captures.kind = "None"
    THEN Panic("unwrap on None")
    ELSE LET args == ArgumentsFrom(Split(captures.args, LitCommaSpace)) IN
         IF IsPanic(args)
         THEN args
         ELSE [kind |-> "CairoEvent",
               name |-> captures.fn_name,
               arguments |-> args.items,
               definition_at |-> 0,
               emitted_at |-> <<>>]

\* definined_at handed the line of the marker instead of the signature line
DefininedAtMarker(event, line) == [event EXCEPT !.definition_at = line - 1]

\* CairoEvent::definined_at
DefininedAt(event, line) == [event EXCEPT !.definition_at = line]

\* CairoEvent::to_js_function_string and to_js_function_name_string
ToJsFunctionString(event) == LitHandle \o event.name
ToJsFunctionNameString(event) == LitNew \o ToLowercase(event.name)

(***************************************************************************)
(* The file system the program reads: a function from the paths that exist *)
(* to nodes.  A directory lists its entries in the order read_dir yields   *)
(* them; a file holds its lines, each Ok(text) or Err (bytes that are not  *)
(* UTF-8, which Lines consumes and reports as an error).                   *)
(***************************************************************************)
FileNode(readable, content) ==
    [kind |-> "file", readable |-> readable, entries |-> <<>>, content |-> content]
DirNode(entries) ==
    [kind |-> "dir", readable |-> TRUE, entries |-> entries, content |-> <<>>]
OkLine(text) == [ok |-> TRUE, text |-> text]
ErrLine == [ok |-> FALSE, text |-> <<>>]

\* Path::extension of the last component: what follows its last ".", unless
\* the only "." is the first character
Extension(path) ==
    LET file_name == Split(path, LitSlash)[Len(Split(path, LitSlash))]
        parts == Split(file_name, LitDot)
    IN  IF Len(parts) < 2 \/ (Len(parts) = 2 /\ parts[1] = <<>>)
        THEN [kind |-> "None"]
        ELSE [kind |-> "Some", value |-> parts[Len(parts)]]

\* is_cairo_file without its test of the extension
IsAnyFile(file) == [kind |-> "Ok", value |-> TRUE]

\* is_cairo_file: Ok(true), or Err(InvalidFileExtension)
IsCairoFile(file) ==
    LET extension == Extension(file) IN
    IF extension.kind = "Some" /\ extension.value = LitCairo
    THEN [kind |-> "Ok", value |-> TRUE]
    ELSE [kind |-> "Err", error |-> "InvalidFileExtension"]

\* is_directory: File::open(file)?.metadata()?.is_dir()
IsDirectory(fsys, file) ==
    IF file \in DOMAIN fsys /\ fsys[file].readable
    THEN [kind |-> "Ok", value |-> fsys[file].kind = "dir"]
    ELSE [kind |-> "Err", error |-> "io"]

\* files_to_parse; WalkEntries is its loop over read_dir(&file)
RECURSIVE FilesToParse(_, _, _)
RECURSIVE WalkEntries(_, _, _)
WalkEntries(fsys, entries, files) ==
    IF entries = <<>>
    THEN [kind |-> "Ok", value |-> files]
    ELSE LET r == FilesToParse(fsys, Head(entries), files) IN
         IF r.kind = "Err"
         THEN r
         ELSE WalkEntries(fsys, Tail(entries), r.value)
FilesToParse(fsys, file, files) ==
    LET d == IsDirectory(fsys, file) IN
    IF d.kind = "Err"
    THEN d
    ELSE LET walked == IF d.value
                       THEN WalkEntries(fsys, fsys[file].entries, files)
                       ELSE [kind |-> "Ok", value |-> files]
         IN  IF walked.kind = "Err"
             THEN walked
             ELSE IF IsCairoFile(file).kind = "Ok"
                  THEN [kind |-> "Ok", value |-> Append(walked.value, file)]
                  ELSE walked

\* read_lines: File::open(filename)?, then the lines of the file
ReadLines(fsys, filename) ==
    IF filename \in DOMAIN fsys /\ fsys[filename].readable
    THEN [kind |-> "Ok", value |-> fsys[filename].content]
    ELSE [kind |-> "Err", error |-> "io"]

\* capitalize
Capitalize(s) == IF s = <<>> THEN <<>> ELSE <<ToUpperChar(Head(s))>> \o Tail(s)

\* FileDomain::new
FileDomainNew(file) ==
    LET parts == Split(file, LitSlash)
        name == RemoveAll(parts[Len(parts)], LitDotCairo)
    IN  [name |-> Capitalize(name), events |-> <<>>]

\* add_cairo_event that puts the event in front of the list
AddCairoEventFirst(domain, event) == [domain EXCEPT !.events = <<event>> \o @]

\* FileDomain::add_cairo_event
AddCairoEvent(domain, event) == [domain EXCEPT !.events = Append(@, event)]

(***************************************************************************)
(* generator.rs.  A GeneratedFile keeps its name; its content keeps the    *)
(* data the template is filled with, not the template's fixed text.        *)
(***************************************************************************)
SeqMap(Op(_), seq) == [i \in 1..Len(seq) |-> Op(seq[i])]

\* the elements of seq that satisfy Keep, in order
RECURSIVE SeqFilter(_, _)
SeqFilter(Keep(_), seq) ==
    IF seq = <<>>
    THEN <<>>
    ELSE (IF Keep(Head(seq)) THEN <<Head(seq)>> ELSE <<>>) \o SeqFilter(Keep, Tail(seq))

\* impl ToString for &CairoArgument and for &CairoEvent
ArgumentToString(a) == [name |-> a.name, type |-> a.type]
EventToString(event) == SeqMap(ArgumentToString, event.arguments)

\* generate_model
GenerateModel(domain) ==
    [name |-> domain.name \o LitGql,
     content |-> [kind |-> "model",
                  type_name |-> domain.name,
                  fields |-> SeqMap(EventToString, domain.events)]]

\* generate_data_writer
GenerateDataWriter(domain) ==
    [name |-> domain.name \o LitDataWriterJs,
     content |-> [kind |-> "data_writer",
                  handlers |-> SeqMap(ToJsFunctionString, domain.events)]]

\* impl From<&CairoEvent> for CheckpointEvent
CheckpointEventFrom(value) ==
    [name |-> ToJsFunctionNameString(value), function |-> ToJsFunctionString(value)]

\* impl From<&FileDomain> for CheckpointSource
CheckpointSourceFrom(value) ==
    [contract |-> "<CHANGE_ME>",
     start |-> 0,
     deploy_fn |-> "handleDeploy",
     events |-> SeqMap(CheckpointEventFrom, value.events)]

HasEvents(fd) == fd.events # <<>>

\* impl From<&[FileDomain]> for CheckpointConfiguration
CheckpointConfigurationFrom(value) ==
    [network_node_url |-> "<CHANGE_ME>",
     sources |-> SeqMap(CheckpointSourceFrom, SeqFilter(HasEvents, value))]

\* generate_config
GenerateConfig(domain) ==
    [name |-> LitConfigurationJson,
     content |-> [kind |-> "config",
                  configuration |-> CheckpointConfigurationFrom(domain)]]

\* the loop of generate_indexer without its `continue`: a unit with no
\* events gets its two documents too
RECURSIVE GenerateUnitsAll(_)
GenerateUnitsAll(file_domains) ==
    IF file_domains = <<>>
    THEN <<>>
    ELSE <<GenerateModel(Head(file_domains)), GenerateDataWriter(Head(file_domains))>>
         \o GenerateUnitsAll(Tail(file_domains))

\* generate_indexer: the loop over the domains, then the configuration
RECURSIVE GenerateUnits(_)
GenerateUnits(file_domains) ==
    IF file_domains = <<>>
    THEN <<>>
    ELSE (IF Head(file_domains).events = <<>>
          THEN <<>>
          ELSE <<GenerateModel(Head(file_domains)),
                 GenerateDataWriter(Head(file_domains))>>)
         \o GenerateUnits(Tail(file_domains))
GenerateIndexer(file_domains) ==
    Append(GenerateUnits(file_domains), GenerateConfig(file_domains))

(***************************************************************************)
(* The inputs of the model.                                                *)
(***************************************************************************)
TextBlank == <<>>
TextStorageOpen == <<"s","t","r","u","c","t"," ","S","t","o","r","a","g","e"," ","{">>
TextClose == <<"}">>
TextEvent == <<"#","[","e","v","e","n","t","]">>
TextSent == <<"f","n"," ","S","e","n","t","(","t","o",":"," ","u","8",","," ","a","m","t",":"," ","u","2","5","6",")">>
TextPing == <<"f","n"," ","P","i","n","g","(",")">>
TextLog == <<"f","n"," ","L","o","g","(","w","h","o",":"," ","F","o","o",")">>
TextMint == <<"f","n"," ","M","i","n","t","(","t","o",":"," ","C","o","n","t","r","a","c","t","A","d","d","r","e","s","s",")">>
TextBurn == <<"f","n"," ","B","u","r","n","(","a","m","t",":"," ","u","6","4",")">>
TextFieldComma == <<" "," ","b","a","l",":"," ","u","2","5","6",",">>
TextFieldBare == <<" "," ","b","a","l",":"," ","u","2","5","6">>

\* the lines a scanned file is made of
LineSet ==
    {OkLine(t) : t \in {TextBlank, TextStorageOpen, TextClose, TextEvent, TextSent,
                        TextPing, TextLog, TextFieldComma, TextFieldBare}}
    \cup {ErrLine}

\* the files of at most MaxLines lines
Contents == UNION {[1..n -> LineSet] : n \in 0..MaxLines}

\* the file parse_cairo_file is called on when it is checked alone
ScanPath == <<"t","o","k","e","n",".","c","a","i","r","o">>
\* a file with a second struct Storage line after the storage block
ContentReopened ==
    <<OkLine(TextStorageOpen), OkLine(TextClose), OkLine(TextStorageOpen),
      OkLine(TextEvent), OkLine(TextSent)>>
ScanFileSystems ==
    {[p \in {ScanPath} |-> FileNode(TRUE, c)] : c \in Contents \cup {ContentReopened}}
    \cup {[p \in {ScanPath} |-> FileNode(FALSE, <<>>)]}

\* the tree handle_generate_indexer is run on; gone.cairo does not exist
PathA == <<"a",".","c","a","i","r","o">>
PathNotes == <<"n","o","t","e","s",".","t","x","t">>
PathSrc == <<"s","r","c">>
PathB == <<"s","r","c","/","b",".","c","a","i","r","o">>
PathReadme == <<"s","r","c","/","r","e","a","d","m","e",".","m","d">>
PathLib == <<"s","r","c","/","l","i","b">>
PathC == <<"s","r","c","/","l","i","b","/","c",".","c","a","i","r","o">>
PathBad == <<"b","a","d",".","c","a","i","r","o">>
PathGone == <<"g","o","n","e",".","c","a","i","r","o">>
PathOpen == <<"o","p","e","n",".","c","a","i","r","o">>

ContentA ==
    <<OkLine(TextStorageOpen), OkLine(TextFieldBare), OkLine(TextClose),
      OkLine(TextEvent), OkLine(TextSent)>>
ContentB == <<OkLine(TextEvent), OkLine(TextMint), OkLine(TextEvent), OkLine(TextBurn)>>
ContentC == <<OkLine(TextBlank)>>
ContentBad == <<OkLine(TextEvent), OkLine(TextClose)>>
ContentOpen == <<OkLine(TextStorageOpen), OkLine(TextFieldBare)>>

Tree(srcEntries) ==
    (PathA :> FileNode(TRUE, ContentA))
    @@ (PathNotes :> FileNode(TRUE, <<>>))
    @@ (PathSrc :> DirNode(srcEntries))
    @@ (PathB :> FileNode(TRUE, ContentB))
    @@ (PathReadme :> FileNode(TRUE, <<>>))
    @@ (PathLib :> DirNode(<<PathC>>))
    @@ (PathC :> FileNode(TRUE, ContentC))
    @@ (PathBad :> FileNode(TRUE, ContentBad))
    @@ (PathOpen :> FileNode(TRUE, ContentOpen))

\* read_dir yields the entries of src in any order
RunFileSystems ==
    {Tree(<<e[1], e[2], e[3]>>) :
        e \in {f \in [1..3 -> {PathB, PathReadme, PathLib}] :
                  \A i, j \in 1..3 : i # j => f[i] # f[j]}}

\* the PATH arguments of a run: one to MaxPaths of these
PathArgs == {PathA, PathNotes, PathSrc, PathBad, PathOpen, PathGone}
PathLists == UNION {[1..n -> PathArgs] : n \in 1..MaxPaths}

(***************************************************************************)
(* The state.                                                              *)
(***************************************************************************)
VARIABLES
    fs,            \* the file system
    writer,        \* "console" (dry-run) or "file" (generate)
    paths,         \* handle_generate_indexer: its paths argument
    path_i,        \* the paths the first loop has taken
    files,         \* handle_generate_indexer: files
    file_i,        \* the files the second loop has taken
    file_domains,  \* handle_generate_indexer: file_domains
    generated,     \* handle_generate_indexer: the result of generate_indexer
    written,       \* what the writer has written, in order
    pc,            \* where the program is
    file,          \* parse_cairo_file: its file argument
    pos,           \* parse_cairo_file: the lines the iterator `lines` has yielded
    line_nr,       \* parse_cairo_file: line_nr
    l,             \* parse_cairo_file: the line l of the outer loop
    storage_buf,   \* parse_cairo_file: storage_buf
    storage,       \* parse_cairo_file: storage
    file_domain,   \* parse_cairo_file: file_domain
    ret,           \* what the call under way returned, or the panic that ended it
    call           \* a conversion called alone: [fn, arg]

vars ==
    <<fs, writer, paths, path_i, files, file_i, file_domains, generated, written, pc,
      file, pos, line_nr, l, storage_buf, storage, file_domain, ret, call>>

runVars == <<writer, paths, path_i, files, file_i, file_domains, generated, written>>
scanVars == <<file, pos, line_nr, l, storage_buf, storage, file_domain>>

None == [kind |-> "None"]
Some(v) == [kind |-> "Some", value |-> v]
Ok(v) == [kind |-> "Ok", value |-> v]

\* the lines of the file being scanned
Lines == fs[file].content

NoRun ==
    /\ writer = "console"
    /\ paths = <<>>
    /\ path_i = 0
    /\ files = <<>>
    /\ file_i = 0
    /\ file_domains = <<>>
    /\ generated = <<>>
    /\ written = <<>>

NoScan ==
    /\ file = <<>>
    /\ pos = 0
    /\ line_nr = 0
    /\ l = <<>>
    /\ storage_buf = <<>>
    /\ storage = None
    /\ file_domain = [name |-> <<>>, events |-> <<>>]

NoCall == [fn |-> "none", arg |-> <<>>]

\* parse_cairo_file(ScanPath) is called
Init ==
    /\ fs \in ScanFileSystems
    /\ NoRun
    /\ file = ScanPath
    /\ pos = 0
    /\ line_nr = 0
    /\ l = <<>>
    /\ storage_buf = <<>>
    /\ storage = None
    /\ file_domain = [name |-> <<>>, events |-> <<>>]
    /\ pc = "open"
    /\ ret = None
    /\ call = NoCall

(***************************************************************************)
(* parse_cairo_file.  pc is "open" at the call, "loop" at the head of the  *)
(* outer while, "storage" at the head of the inner while, "event" at the   *)
(* test of is_event_line, "returned" once it has returned and "panicked"   *)
(* once a conversion has panicked.                                         *)
(***************************************************************************)
\* lines 157-161: the locals, then read_lines; a file that cannot be opened
\* skips the loop and the function returns Ok(file_domain)
OpenFile ==
    /\ pc = "open"
    /\ file_domain' = FileDomainNew(file)
    /\ storage_buf' = <<>>
    /\ storage' = None
    /\ pos' = 0
    /\ line_nr' = 0
    /\ IF ReadLines(fs, file).kind = "Ok"
       THEN pc' = "loop" /\ ret' = ret
       ELSE pc' = "returned" /\ ret' = Ok(FileDomainNew(file))
    /\ UNCHANGED <<fs, runVars, file, l, call>>

\* NextLine with every counted line pushed to storage_buf
NextLineBuffered ==
    /\ pc = "loop"
    /\ pos < Len(Lines)
    /\ pos' = pos + 1
    /\ LET line == Lines[pos + 1] IN
       IF line.ok
       THEN /\ line_nr' = line_nr + 1
            /\ l' = line.text
            /\ storage_buf' = Append(storage_buf, line.text)
            /\ pc' = IF Contains(line.text, LitStructStorage) THEN "storage" ELSE "event"
       ELSE UNCHANGED <<line_nr, l, pc, storage_buf>>
    /\ UNCHANGED <<fs, runVars, file, storage, file_domain, ret, call>>

\* lines 162-166: lines.next() yields a line; an Err line is dropped, an Ok
\* line is counted and tested for the storage marker
NextLine ==
    /\ pc = "loop"
    /\ pos < Len(Lines)
    /\ pos' = pos + 1
    /\ LET line == Lines[pos + 1] IN
       IF line.ok
       THEN /\ line_nr' = line_nr + 1
            /\ l' = line.text
            /\ pc' = IF Contains(line.text, LitStructStorage) THEN "storage" ELSE "event"
       ELSE UNCHANGED <<line_nr, l, pc>>
    /\ UNCHANGED <<fs, runVars, file, storage_buf, storage, file_domain, ret, call>>

\* lines 162 and 198: lines.next() yields None, the function returns
Return ==
    /\ pc = "loop"
    /\ pos = Len(Lines)
    /\ pc' = "returned"
    /\ ret' = Ok(file_domain)
    /\ UNCHANGED <<fs, runVars, scanVars, call>>

\* the inner while entered afresh whenever a struct Storage line is met:
\* storage and storage_buf are reset and the capture starts again
StorageLoopReenter ==
    /\ pc = "storage"
    /\ storage # None
    /\ storage' = None
    /\ storage_buf' = <<>>
    /\ UNCHANGED <<fs, runVars, file, pos, line_nr, l, file_domain, pc, ret, call>>

\* line 167: storage is set, the inner while is left (or not entered)
StorageLoopExit ==
    /\ pc = "storage"
    /\ storage # None
    /\ pc' = "event"
    /\ UNCHANGED <<fs, runVars, scanVars, ret, call>>

\* lines 167-168: storage is not set and lines.next() yields None: the body
\* does nothing and the while tests storage.is_none() again
StorageLoopEof ==
    /\ pc = "storage"
    /\ storage = None
    /\ pos = Len(Lines)
    /\ UNCHANGED vars

\* lines 167-177: storage is not set and lines.next() yields a line
StorageLoopLine ==
    /\ pc = "storage"
    /\ storage = None
    /\ pos < Len(Lines)
    /\ pos' = pos + 1
    /\ LET line == Lines[pos + 1] IN
       IF ~line.ok
       THEN UNCHANGED <<line_nr, storage, storage_buf, pc, ret>>
       ELSE /\ line_nr' = line_nr + 1
            /\ IF Contains(line.text, <<"}">>)
               THEN LET converted == CairoStorageFrom(storage_buf) IN
                    IF IsPanic(converted)
                    THEN /\ pc' = "panicked"
                         /\ ret' = converted
                         /\ UNCHANGED <<storage, storage_buf>>
                    ELSE /\ storage' = Some(converted)
                         /\ storage_buf' = Append(storage_buf, line.text)
                         /\ UNCHANGED <<pc, ret>>
               ELSE /\ storage_buf' = Append(storage_buf, line.text)
                    /\ UNCHANGED <<storage, pc, ret>>
    /\ UNCHANGED <<fs, runVars, file, l, file_domain, call>>

\* lines 182-183: l is not an event line
EventSkip ==
    /\ pc = "event"
    /\ ~Contains(l, LitEventMarker)
    /\ pc' = "loop"
    /\ UNCHANGED <<fs, runVars, scanVars, ret, call>>

\* EventMarker with the missing signature line taken for an empty one: a
\* marker on the last line records the event CairoEvent::default()
EventMarkerDefault ==
    /\ pc = "event"
    /\ Contains(l, LitEventMarker)
    /\ IF pos = Len(Lines)
       THEN /\ pc' = "loop"
            /\ file_domain' =
                  AddCairoEvent(file_domain,
                                [kind |-> "CairoEvent", name |-> <<>>, arguments |-> <<>>,
                                 definition_at |-> line_nr, emitted_at |-> <<>>])
            /\ UNCHANGED <<pos, line_nr, ret>>
       ELSE /\ pos' = pos + 1
            /\ LET event_line == Lines[pos + 1] IN
               IF ~event_line.ok
               THEN /\ pc' = "loop"
                    /\ UNCHANGED <<line_nr, file_domain, ret>>
               ELSE /\ line_nr' = line_nr + 1
                    /\ LET cairo_event == CairoEventFrom(event_line.text) IN
                       IF IsPanic(cairo_event)
                       THEN /\ pc' = "panicked"
                            /\ ret' = cairo_event
                            /\ UNCHANGED file_domain
                       ELSE /\ file_domain' =
                                  AddCairoEvent(file_domain,
                                                DefininedAt(cairo_event, line_nr + 1))
                            /\ pc' = "loop"
                            /\ UNCHANGED ret
    /\ UNCHANGED <<fs, runVars, file, l, storage_buf, storage, call>>

\* lines 182-193: l is an event line; the next line, when lines.next() yields
\* Some(Ok(_)), is counted and converted to the event
EventMarker ==
    /\ pc = "event"
    /\ Contains(l, LitEventMarker)
    /\ IF pos = Len(Lines)
       THEN /\ pc' = "loop"
            /\ UNCHANGED <<pos, line_nr, file_domain, ret>>
       ELSE /\ pos' = pos + 1
            /\ LET event_line == Lines[pos + 1] IN
               IF ~event_line.ok
               THEN /\ pc' = "loop"
                    /\ UNCHANGED <<line_nr, file_domain, ret>>
               ELSE /\ line_nr' = line_nr + 1
                    /\ LET cairo_event == CairoEventFrom(event_line.text) IN
                       IF IsPanic(cairo_event)
                       THEN /\ pc' = "panicked"
                            /\ ret' = cairo_event
                            /\ UNCHANGED file_domain
                       ELSE /\ file_domain' =
                                  AddCairoEvent(file_domain,
                                                DefininedAt(cairo_event, line_nr + 1))
                            /\ pc' = "loop"
                            /\ UNCHANGED ret
    /\ UNCHANGED <<fs, runVars, file, l, storage_buf, storage, call>>

Next ==
    \/ OpenFile
    \/ NextLine
    \/ Return
    \/ StorageLoopExit
    \/ StorageLoopEof
    \/ StorageLoopLine
    \/ EventSkip
    \/ EventMarker

Spec == Init /\ [][Next]_vars

(***************************************************************************)
(* main.rs: handle_generate_indexer.  pc is "collect" in the loop over the *)
(* paths, "parse" in the loop over the files (and the pc of                *)
(* parse_cairo_file inside a call of it), "write" in the loop over the     *)
(* generated files, "exit_ok" or "exit_err" once it has returned.          *)
(***************************************************************************)
InitRun ==
    /\ fs \in RunFileSystems
    /\ writer \in {"console", "file"}
    /\ paths \in PathLists
    /\ path_i = 0
    /\ files = <<>>
    /\ file_i = 0
    /\ file_domains = <<>>
    /\ generated = <<>>
    /\ written = <<>>
    /\ NoScan
    /\ pc = "collect"
    /\ ret = None
    /\ call = NoCall

\* lines 65-68: one path; files_to_parse is handed a clone of files and its
\* result is appended to files
CollectPath ==
    /\ pc = "collect"
    /\ path_i < Len(paths)
    /\ LET to_parse == FilesToParse(fs, paths[path_i + 1], files) IN
       IF to_parse.kind = "Err"
       THEN /\ pc' = "exit_err"
            /\ ret' = to_parse
            /\ UNCHANGED <<files, path_i>>
       ELSE /\ files' = files \o to_parse.value
            /\ path_i' = path_i + 1
            /\ UNCHANGED <<pc, ret>>
    /\ UNCHANGED <<fs, writer, paths, file_i, file_domains, generated, written,
                   scanVars, call>>

\* lines 70-72: the paths are exhausted
CollectDone ==
    /\ pc = "collect"
    /\ path_i = Len(paths)
    /\ pc' = "parse"
    /\ UNCHANGED <<fs, runVars, scanVars, ret, call>>

\* lines 73-74: the next file is handed to parse_cairo_file
ParseNextFile ==
    /\ pc = "parse"
    /\ file_i < Len(files)
    /\ file' = files[file_i + 1]
    /\ pc' = "open"
    /\ UNCHANGED <<fs, runVars, pos, line_nr, l, storage_buf, storage, file_domain,
                   ret, call>>

\* PushFileDomain with the documents of the unit written as soon as its file
\* is scanned
PushFileDomainAndWrite ==
    /\ pc = "returned"
    /\ file_domains' = Append(file_domains, ret.value)
    /\ written' = written \o GenerateUnits(<<ret.value>>)
    /\ file_i' = file_i + 1
    /\ pc' = "parse"
    /\ ret' = None
    /\ UNCHANGED <<fs, writer, paths, path_i, files, generated, scanVars, call>>

\* lines 74-75: parse_cairo_file has returned Ok(events)
PushFileDomain ==
    /\ pc = "returned"
    /\ file_domains' = Append(file_domains, ret.value)
    /\ file_i' = file_i + 1
    /\ pc' = "parse"
    /\ ret' = None
    /\ UNCHANGED <<fs, writer, paths, path_i, files, generated, written, scanVars, call>>

\* line 78: the files are exhausted, generate_indexer
Generate ==
    /\ pc = "parse"
    /\ file_i = Len(files)
    /\ generated' = GenerateIndexer(file_domains)
    /\ pc' = "write"
    /\ UNCHANGED <<fs, writer, paths, path_i, files, file_i, file_domains, written,
                   scanVars, ret, call>>

\* writer.rs: ConsoleWriter::write prints and returns Ok; FileWriter::write
\* returns Ok, or an error when the file cannot be created or written
WriteOutcomes == IF writer = "console" THEN {"Ok"} ELSE {"Ok", "Err"}

\* lines 80-82: one generated file is written
WriteFile ==
    /\ pc = "write"
    /\ Len(written) < Len(generated)
    /\ \E outcome \in WriteOutcomes :
          IF outcome = "Ok"
          THEN /\ written' = Append(written, generated[Len(written) + 1])
               /\ UNCHANGED <<pc, ret>>
          ELSE /\ pc' = "exit_err"
               /\ ret' = [kind |-> "Err", error |-> "WriterError"]
               /\ UNCHANGED written
    /\ UNCHANGED <<fs, writer, paths, path_i, files, file_i, file_domains, generated,
                   scanVars, call>>

\* line 84: every generated file is written
Finish ==
    /\ pc = "write"
    /\ Len(written) = Len(generated)
    /\ pc' = "exit_ok"
    /\ UNCHANGED <<fs, runVars, scanVars, ret, call>>

NextRun ==
    \/ CollectPath
    \/ CollectDone
    \/ ParseNextFile
    \/ PushFileDomain
    \/ Generate
    \/ WriteFile
    \/ Finish
    \/ OpenFile
    \/ NextLine
    \/ Return
    \/ StorageLoopExit
    \/ StorageLoopEof
    \/ StorageLoopLine
    \/ EventSkip
    \/ EventMarker

RunSpec == InitRun /\ [][NextRun]_vars

(***************************************************************************)
(* The conversions called alone: CairoType::from, CairoStorage::from and   *)
(* CairoEvent::from, each on one argument.  pc is "call", then "returned"  *)
(* or "panicked".                                                          *)
(***************************************************************************)
PrimitiveTokens ==
    {LitFelt252, LitContractAddress, LitU8, LitU16, LitU32, LitU64, LitU128, LitU256}
TextFoo == <<"F","o","o">>
TextTupleKey ==
    <<"(">> \o LitContractAddress \o LitCommaSpace \o LitContractAddress \o <<")">>

\* LegacyMap<k, v> as Cairo writes it
MapToken(k, v) == LitLegacyMap \o <<"<">> \o k \o LitCommaSpace \o v \o <<">">>
MapTokens ==
    {MapToken(k, v) : k \in {LitContractAddress, LitFelt252, TextTupleKey},
                      v \in {LitU256, LitU64, MapToken(LitContractAddress, LitU256)}}

TypeTokens ==
    PrimitiveTokens
    \cup {<<" ">> \o t : t \in PrimitiveTokens}
    \cup {t \o <<",">> : t \in PrimitiveTokens}
    \cup MapTokens
    \cup {TextFoo, <<>>, <<"U","8">>, <<"u","8","0">>}

\* a field of a storage block as Cairo writes it: <indent>name: T,
FieldLine(name, t) == <<" "," ">> \o name \o LitColonSpace \o t \o <<",">>
SourceFieldLines ==
    {FieldLine(n, t) : n \in {<<"b","a","l">>},
                       t \in {LitFelt252, LitU256, MapToken(LitContractAddress, LitU256)}}
FieldLines ==
    SourceFieldLines \cup {TextFieldBare, TextBlank, <<"/","/"," ","x">>, <<"{">>}
FieldLists == UNION {[1..n -> FieldLines] : n \in 0..MaxFields}

\* fn Name(a: T1, b: T2)
Signature(name, t1, t2) ==
    LitFn \o name \o <<"(">> \o <<"a">> \o LitColonSpace \o t1 \o LitCommaSpace
          \o <<"b">> \o LitColonSpace \o t2 \o <<")">>
SignatureNames == {<<"S","e","n","t">>, <<"M","i","n","t">>}
SignatureTypes == PrimitiveTokens \cup {TextFoo}
SignatureLines ==
    {Signature(n, t1, t2) : n \in SignatureNames, t1 \in SignatureTypes,
                            t2 \in SignatureTypes}
    \cup {TextPing, TextLog, TextEvent, TextBlank}

FnCalls ==
    {[fn |-> "CairoType::from", arg |-> t] : t \in TypeTokens}
    \cup {[fn |-> "CairoStorage::from", arg |-> v] : v \in FieldLists}
    \cup {[fn |-> "CairoEvent::from", arg |-> v] : v \in SignatureLines}

InitFn ==
    /\ fs \in {[p \in {ScanPath} |-> FileNode(FALSE, <<>>)]}
    /\ NoRun
    /\ NoScan
    /\ pc = "call"
    /\ ret = None
    /\ call \in FnCalls

\* the call returns its value, or panics
Returns(value) ==
    /\ pc' = IF IsPanic(value) THEN "panicked" ELSE "returned"
    /\ ret' = value
    /\ UNCHANGED <<fs, runVars, scanVars, call>>

ResolveType ==
    /\ pc = "call"
    /\ call.fn = "CairoType::from"
    /\ Returns(CairoTypeFrom(call.arg))

ConvertStorage ==
    /\ pc = "call"
    /\ call.fn = "CairoStorage::from"
    /\ Returns(CairoStorageFrom(call.arg))

ExtractEvent ==
    /\ pc = "call"
    /\ call.fn = "CairoEvent::from"
    /\ Returns(CairoEventFrom(call.arg))

NextFn == ResolveType \/ ConvertStorage \/ ExtractEvent

FnSpec == InitFn /\ [][NextFn]_vars

(***************************************************************************)
(* Properties of parse_cairo_file (Spec, FairSpec).                        *)
(***************************************************************************)
IsEventLine(text) == Contains(text, LitEventMarker)
Events == file_domain.events

\* the first n lines of the file are readable text
AllReadable(n) == \A i \in 1..n : Lines[i].ok

\* the inner while is at its head with storage unset and the input exhausted
AtStorageEof == pc = "storage" /\ storage = None /\ pos = Len(Lines)

\* C1: a file whose storage block is never closed is still scanned to the
\* end: when the input is exhausted inside storage capture the scan is not
\* stuck, it can take a step that changes its state (towards returning Ok
\* with the events found so far).
C1_UnclosedStorageScanGoesOn == AtStorageEof => ENABLED <<Next>>_vars

ClosingStep ==
    /\ pc = "storage"
    /\ storage = None
    /\ pos < Len(Lines)
    /\ Lines[pos + 1].ok
    /\ Contains(Lines[pos + 1].text, <<"}">>)
HasColon(text) == Contains(text, LitColon)
ColonLines(buf) == SelectSeq(buf, HasColon)

\* C5: when a storage block closes over a buffer that holds a line without a
\* colon (its lines with a colon being fields the resolver accepts), the scan
\* does not fail and the storage gets one field per line with a colon.
C5_ColonlessLinesIgnored ==
    [][(/\ ClosingStep
        /\ \E i \in 1..Len(storage_buf) : ~HasColon(storage_buf[i])
        /\ ~IsPanic(FieldsVec(ColonLines(storage_buf))))
       => (/\ pc' # "panicked"
           /\ storage' # None
           /\ Cardinality(storage'.value.fields) = Len(ColonLines(storage_buf)))]_vars

\* the step at an event marker whose next line is readable
MarkerStep ==
    /\ pc = "event"
    /\ IsEventLine(l)
    /\ pos < Len(Lines)
    /\ Lines[pos + 1].ok

\* C7: a marker followed at once by a second marker does not take the second
\* marker for its signature: the scan does not fail on it and the second
\* marker is left to be read as a marker by the outer loop.
C7_ConsecutiveMarkersIndependent ==
    [][(MarkerStep /\ IsEventLine(Lines[pos + 1].text))
       => (pc' # "panicked" /\ pos' = pos)]_vars

\* the outer loop has read the last line of the file and it is an event marker
AtTrailingMarker == pc = "event" /\ IsEventLine(l) /\ pos = Len(Lines)

\* C8: a marker on the last line records no event, and the scan then returns
\* Ok with the events recorded before it.
C8_TrailingMarkerRecordsNothing ==
    [][/\ AtTrailingMarker => (pc' = "loop" /\ UNCHANGED <<file_domain, pos, line_nr>>)
       /\ (pc = "loop" /\ pos = Len(Lines)) => (pc' = "returned" /\ ret' = Ok(file_domain))]_vars

\* C8 witness: a scan that recorded an event has returned after reading a
\* marker on the last line of the file.
C8_ReturnedAfterTrailingMarker ==
    /\ pc = "returned"
    /\ Len(Lines) >= 1
    /\ Lines[Len(Lines)].ok
    /\ IsEventLine(Lines[Len(Lines)].text)
    /\ l = Lines[Len(Lines)].text
    /\ Len(Events) >= 1
    /\ ret = Ok(file_domain)

\* the argument tokens of a signature line, and whether one of them carries a
\* type token that is no primitive and does not start with LegacyMap
ArgTokens(text) ==
    LET c == Captures(text) IN
    IF c.kind = "None" THEN <<>> ELSE Split(c.args, LitCommaSpace)
UnknownTypeToken(t) ==
    /\ Trim(t) \notin {LitFelt252, LitContractAddress, LitU8, LitU16, LitU32, LitU64,
                       LitU128, LitU256}
    /\ ~StartsWith(Trim(t), LitLegacyMap)
HasUnknownArgType(text) ==
    \E i \in 1..Len(ArgTokens(text)) :
        LET v == Split(ArgTokens(text)[i], LitColonSpace) IN
        Len(v) >= 2 /\ UnknownTypeToken(v[2])

\* C9: a signature with an argument of unknown type aborts the scan: the
\* step that converts it panics and records no event.
C9_UnknownArgumentTypeAborts ==
    [][(MarkerStep /\ HasUnknownArgType(Lines[pos + 1].text))
       => (pc' = "panicked" /\ file_domain' = file_domain)]_vars

(***************************************************************************)
(* Properties of handle_generate_indexer (RunSpec).                        *)
(***************************************************************************)
EventNames(fd) == {fd.events[k].name : k \in 1..Len(fd.events)}

\* C3: once the files are scanned, there is one unit per distinct accepted
\* file and no two units share an event.
C3_OneUnitPerAcceptedFile ==
    pc \in {"write", "exit_ok"} =>
        /\ Len(file_domains) = Cardinality({files[i] : i \in 1..Len(files)})
        /\ \A i, j \in 1..Len(file_domains) :
              i # j => EventNames(file_domains[i]) \cap EventNames(file_domains[j]) = {}

(***************************************************************************)
(* Properties of the conversions (FnSpec).                                 *)
(***************************************************************************)
Called(fn, arg) == call = [fn |-> fn, arg |-> arg] /\ pc # "call"

\* C4: LegacyMap<ContractAddress, u256> resolves to the map from
\* ContractAddress to U256, and LegacyMap<ContractAddress,
\* LegacyMap<ContractAddress, u256>> to a map whose value is a map.
C4_LegacyMapResolves ==
    /\ Called("CairoType::from", MapToken(LitContractAddress, LitU256))
          => (pc = "returned"
              /\ ret = LegacyMapOf(Prim("ContractAddress"), Prim("U256")))
    /\ Called("CairoType::from",
              MapToken(LitContractAddress, MapToken(LitContractAddress, LitU256)))
          => (pc = "returned"
              /\ ret.kind = "LegacyMap"
              /\ ret.value.kind = "LegacyMap")

\* C6: a list of storage fields written as in Cairo source, each
\* <indent>name: T, with T a primitive or a LegacyMap, converts to a
\* CairoStorage without failing.
C6_SourceFieldsConvert ==
    (/\ call.fn = "CairoStorage::from"
     /\ pc # "call"
     /\ \A i \in 1..Len(call.arg) : call.arg[i] \in SourceFieldLines)
        => pc = "returned"

\* C10: fn Name(a: T1, b: T2) with recognized T1, T2 converts to the event
\* Name with the two arguments a, b in that order, typed by the resolver's
\* descriptors of T1, T2, so that distinct descriptors stay distinct.
C10_SignatureExtracted ==
    \A n \in SignatureNames, t1 \in PrimitiveTokens, t2 \in PrimitiveTokens :
        Called("CairoEvent::from", Signature(n, t1, t2)) =>
            /\ pc = "returned"
            /\ ret.name = n
            /\ Len(ret.arguments) = 2
            /\ ret.arguments[1].name = <<"a">>
            /\ ret.arguments[2].name = <<"b">>
            /\ ret.arguments[1].type = CairoTypeFrom(t1)
            /\ ret.arguments[2].type = CairoTypeFrom(t2)
            /\ (CairoTypeFrom(t1) # CairoTypeFrom(t2)
                  => ret.arguments[1].type # ret.arguments[2].type)

(***************************************************************************)
(* C11.  generate_indexer returns, in unit order, a schema document and a  *)
(* handler document for each unit that has events, nothing for a unit      *)
(* without events, and the configuration document last; the configuration  *)
(* has one source per unit with events, in unit order, and each source     *)
(* has one entry per event, in event order, that pairs the trigger name    *)
(* new_<lowercased event name> with the handler name handle<event name>.   *)
(***************************************************************************)
\* the units with events among the first i units
NonEmptyUpTo(i) == {k \in 1..i : file_domains[k].events # <<>>}
\* the position in file_domains of the j-th unit with events
NonEmptyIndex(j) ==
    CHOOSE i \in 1..Len(file_domains) :
        file_domains[i].events # <<>> /\ Cardinality(NonEmptyUpTo(i)) = j
NonEmptyCount == Cardinality(NonEmptyUpTo(Len(file_domains)))
Generated == pc \in {"write", "exit_ok"}

C11_DocumentsPerNonEmptyUnit ==
    Generated =>
        LET n == NonEmptyCount
            config == generated[Len(generated)]
            sources == config.content.configuration.sources
        IN  /\ Len(generated) = 2 * n + 1
            /\ config.name = LitConfigurationJson
            /\ config.content.kind = "config"
            /\ Len(sources) = n
            /\ \A j \in 1..n :
                  LET unit == file_domains[NonEmptyIndex(j)] IN
                  /\ generated[2 * j - 1].name = unit.name \o LitGql
                  /\ generated[2 * j - 1].content.kind = "model"
                  /\ generated[2 * j].name = unit.name \o LitDataWriterJs
                  /\ generated[2 * j].content.kind = "data_writer"
                  /\ Len(sources[j].events) = Len(unit.events)
                  /\ \A k \in 1..Len(unit.events) :
                        /\ sources[j].events[k].name
                              = LitNew \o ToLowercase(unit.events[k].name)
                        /\ sources[j].events[k].function
                              = LitHandle \o unit.events[k].name

\* documents were generated from a unit without events, a unit with one
\* event and a unit with two
C11_GeneratedFromMixedUnits ==
    /\ Generated
    /\ \E i \in 1..Len(file_domains) : file_domains[i].events = <<>>
    /\ \E i \in 1..Len(file_domains) : Len(file_domains[i].events) = 2
    /\ NonEmptyCount >= 2

(***************************************************************************)
(* C12.  files_to_parse never adds a path whose extension is not cairo,    *)
(* and meeting one, as the path given or during the walk of a directory,   *)
(* is no error: the call returns Ok and the walk goes on, so the cairo     *)
(* files under the path are all collected.                                 *)
(***************************************************************************)
HasCairoExtension(path) == Extension(path) = [kind |-> "Some", value |-> LitCairo]
Range(seq) == {seq[i] : i \in 1..Len(seq)}
\* the path, its entries and the entries of its entries
Under(path) ==
    LET below(q) == IF q \in DOMAIN fs THEN Range(fs[q].entries) ELSE {}
        d1 == {path} \cup below(path)
    IN  d1 \cup UNION {below(q) : q \in d1}
CollectStep == pc = "collect" /\ path_i < Len(paths) /\ paths[path_i + 1] \in DOMAIN fs

C12_NonCairoPathsSkipped ==
    [][CollectStep =>
         /\ pc' = "collect"
         /\ path_i' = path_i + 1
         /\ \A f \in Range(files') : HasCairoExtension(f)
         /\ \A f \in Under(paths[path_i + 1]) : HasCairoExtension(f) => f \in Range(files')
      ]_vars

\* notes.txt was passed, then src was walked with readme.md as its first
\* entry, and the two cairo files under src were collected
C12_WalkedPastNonCairoEntries ==
    /\ paths = <<PathNotes, PathSrc>>
    /\ path_i = 2
    /\ fs[PathSrc].entries[1] = PathReadme
    /\ files = <<PathB, PathC>> \/ files = <<PathC, PathB>>

(***************************************************************************)
(* C13.  The events of a unit are in encounter order: every step of the    *)
(* scan keeps the events recorded so far as a prefix of the event list,    *)
(* and the definition lines are strictly increasing along the list, during *)
(* the scan and in the returned unit.                                      *)
(***************************************************************************)
IsPrefix(s, t) == Len(s) <= Len(t) /\ \A i \in 1..Len(s) : t[i] = s[i]
StrictlyIncreasing(events) ==
    \A i, j \in 1..Len(events) : i < j => events[i].definition_at < events[j].definition_at

C13_EventsInEncounterOrder ==
    [][/\ IsPrefix(file_domain.events, file_domain'.events)
       /\ StrictlyIncreasing(file_domain'.events)
       /\ (pc' = "returned" /\ pc # "open" => ret'.value.events = file_domain.events)
      ]_vars

\* the scan returned a unit with two events
C13_ReturnedTwoEvents ==
    /\ pc = "returned"
    /\ Len(ret.value.events) = 2
    /\ ret.value.events[1].name # ret.value.events[2].name

(***************************************************************************)
(* C14.  When the line after an #[event] marker does not have the shape    *)
(* fn <letters>(<args>), the scan fails hard: the step records no event,   *)
(* the call ends without a unit, and no later line is read.                *)
(***************************************************************************)
\* text holds "fn ", one or more letters, "(", and a ")" further on
SignatureShape(text) ==
    \E i, j, k \in 1..Len(text) :
        /\ i + 3 < j /\ j < k
        /\ SubSeq(text, i, i + 2) = LitFn
        /\ \A m \in (i + 3)..(j - 1) : IsLetter(text[m])
        /\ text[j] = "("
        /\ text[k] = ")"
\* the main loop is at a marker and the next line is readable and shapeless
AtShapelessSignature ==
    /\ pc = "event"
    /\ IsEventLine(l)
    /\ pos < Len(Lines)
    /\ Lines[pos + 1].ok
    /\ ~SignatureShape(Lines[pos + 1].text)

C14_ShapelessSignatureFailsHard ==
    [][/\ AtShapelessSignature =>
            /\ pc' = "panicked"
            /\ IsPanic(ret')
            /\ file_domain' = file_domain
       /\ pc # "panicked"
      ]_vars

\* the scan ended on a panic at the shapeless line after a marker, with an
\* event recorded before it
C14_PanickedAfterMarker ==
    /\ pc = "panicked"
    /\ pos >= 2
    /\ IsEventLine(Lines[pos - 1].text)
    /\ Lines[pos].ok
    /\ ~SignatureShape(Lines[pos].text)
    /\ ~IsEventLine(Lines[pos].text)
    /\ Len(file_domain.events) = 1
    /\ l = Lines[pos - 1].text

(***************************************************************************)
(* C15.  In handle_generate_indexer every write happens after every        *)
(* collected file has been scanned successfully: while anything is         *)
(* written, all paths are collected and each file has given its unit; and  *)
(* when the scan of a file has aborted, nothing is written.                *)
(***************************************************************************)
C15_WritesFollowAllScans ==
    /\ written # <<>> =>
          /\ path_i = Len(paths)
          /\ file_i = Len(files)
          /\ Len(file_domains) = Len(files)
          /\ pc \in {"write", "exit_ok", "exit_err"}
    /\ pc = "panicked" => written = <<>>

\* the scan of a file aborted after an earlier file of the batch, one with
\* an event, had been scanned successfully
C15_AbortedAfterScannedFile ==
    /\ pc = "panicked"
    /\ file_i >= 1
    /\ file_domains[1].events # <<>>
    /\ written = <<>>

(***************************************************************************)
(* C16.  When the file given to parse_cairo_file cannot be opened, the     *)
(* I/O error propagates: the call returns an error and not a unit.         *)
(***************************************************************************)
CannotOpen == ReadLines(fs, file).kind = "Err"

C16_OpenFailurePropagates ==
    (CannotOpen /\ pc = "returned") => ret.kind = "Err"

(***************************************************************************)
(* C17.  A line consumed by the main loop that contains neither            *)
(* struct Storage nor #[event] changes nothing but the line counter, which *)
(* grows by one: the event list, the storage buffer and the storage result *)
(* stay as they were, through the reading of the line and through the      *)
(* test of is_event_line that follows.                                     *)
(***************************************************************************)
IsPlain(text) == ~Contains(text, LitStructStorage) /\ ~IsEventLine(text)
\* the main loop is about to read a readable plain line
AtPlainLine ==
    /\ pc = "loop"
    /\ pos < Len(Lines)
    /\ Lines[pos + 1].ok
    /\ IsPlain(Lines[pos + 1].text)
\* the main loop has read a plain line and is at the test of is_event_line
InPlainLine == pc = "event" /\ IsPlain(l)

C17_PlainLineOnlyCounts ==
    [][/\ AtPlainLine =>
            /\ line_nr' = line_nr + 1
            /\ pos' = pos + 1
            /\ pc' = "event"
            /\ UNCHANGED <<file_domain, storage_buf, storage, ret>>
       /\ InPlainLine =>
            /\ pc' = "loop"
            /\ UNCHANGED <<line_nr, pos, file_domain, storage_buf, storage, ret>>
      ]_vars

\* a plain third line was consumed after an event was recorded
C17_PlainLineAfterEvent ==
    /\ pc = "loop"
    /\ pos = 3
    /\ line_nr = 3
    /\ Lines[3].ok
    /\ IsPlain(Lines[3].text)
    /\ l = Lines[3].text
    /\ Len(file_domain.events) = 1

(***************************************************************************)
(* C18.  Every event that parse_cairo_file records has at least one        *)
(* argument: a signature with an empty argument list, fn Name(), gives one *)
(* empty argument token without the ": " separator, and the scan aborts    *)
(* instead of recording an event with no argument.                         *)
(***************************************************************************)
\* text has the shape of a signature and its only parentheses are "()"
EmptyArgumentList(text) ==
    /\ SignatureShape(text)
    /\ \E i \in 1..(Len(text) - 1) :
          /\ text[i] = "(" /\ text[i + 1] = ")"
          /\ \A m \in 1..Len(text) : text[m] \in {"(", ")"} => m \in {i, i + 1}
AtEmptyArgumentList ==
    /\ pc = "event"
    /\ IsEventLine(l)
    /\ pos < Len(Lines)
    /\ Lines[pos + 1].ok
    /\ EmptyArgumentList(Lines[pos + 1].text)

C18_RecordedEventsHaveArguments ==
    [][/\ \A k \in 1..Len(file_domain'.events) :
             Len(file_domain'.events[k].arguments) >= 1
       /\ AtEmptyArgumentList =>
             /\ pc' = "panicked"
             /\ IsPanic(ret')
             /\ file_domain' = file_domain
      ]_vars

\* the scan aborted on fn Ping() after a marker, with an event recorded
\* before
C18_PanickedOnEmptyArgumentList ==
    /\ pc = "panicked"
    /\ pos = 4
    /\ IsEventLine(Lines[3].text)
    /\ Lines[4].ok
    /\ EmptyArgumentList(Lines[4].text)
    /\ Len(file_domain.events) = 1
    /\ ret.msg = "index out of bounds"

(***************************************************************************)
(* C19.  Storage capture is entered at most once per file and hides event  *)
(* markers.  A line consumed by the inner loop is not examined for         *)
(* #[event]: it records no event and the scan stays in the capture (or     *)
(* ends on the panic of the conversion).  Once storage is set it never     *)
(* changes again, a later struct Storage line consumes no line, and a      *)
(* marker after it records the event of its signature line.                *)
(***************************************************************************)
\* the inner loop is about to consume a line
InCapture == pc = "storage" /\ storage = None /\ pos < Len(Lines)
\* the inner loop is at its test with storage set
AfterCapture == pc = "storage" /\ storage # None
\* the main loop is at a marker followed by a readable line that converts
AtSignature ==
    /\ pc = "event"
    /\ IsEventLine(l)
    /\ pos < Len(Lines)
    /\ Lines[pos + 1].ok
    /\ ~IsPanic(CairoEventFrom(Lines[pos + 1].text))

C19_CaptureOnceAndHidesMarkers ==
    [][/\ InCapture =>
            /\ pos' = pos + 1
            /\ file_domain' = file_domain
            /\ l' = l
            /\ pc' \in {"storage", "panicked"}
       /\ AfterCapture =>
            /\ pc' = "event"
            /\ UNCHANGED <<pos, line_nr, l, storage_buf, file_domain>>
       /\ storage # None => UNCHANGED <<storage, storage_buf>>
       /\ (storage # None /\ AtSignature) =>
            /\ Len(file_domain'.events) = Len(file_domain.events) + 1
            /\ file_domain'.events[Len(file_domain'.events)].definition_at = line_nr + 1
      ]_vars

\* the scan of a file with a second struct Storage line after the closed
\* block returned the event declared after that line
C19_EventAfterSecondStorageLine ==
    /\ pc = "returned"
    /\ Len(Lines) = 5
    /\ Contains(Lines[1].text, LitStructStorage)
    /\ Contains(Lines[3].text, LitStructStorage)
    /\ storage # None
    /\ storage_buf = <<Lines[2].text>>
    /\ Len(ret.value.events) = 1
    /\ ret.value.events[1].definition_at = 5

====
